---- MODULE Spec2Model ----
(***************************************************************************)
(* Model of the real-time detection controller of mom-eye:                 *)
(*   src/components/shared/UltraOptimizedDetector.tsx                      *)
(* (FrameDifferenceDetector, ObjectTracker, AdaptiveQualityController and  *)
(* the UltraOptimizedDetector component that drives them from a            *)
(* setInterval timer).                                                     *)
(*                                                                         *)
(* Units: times are milliseconds (Date.now()); quality and confidences     *)
(* are hundredths (0.7 is 70); positions are thousandths (the remote       *)
(* [0,1000] range divided by 1000 is kept as the integer numerator);       *)
(* a decayed confidence is an exact fraction [n, d].                       *)
(***************************************************************************)
EXTENDS Integers, Sequences, FiniteSets, TLC

(* ------------------------------ bounds -------------------------------- *)

\* The clock stops advancing after this many steps of ClockStep ms.
MaxClockSteps == 6

\* At most this many detection requests are awaiting their fetch at once.
MaxInFlight == 2

\* The user interacts with the page at most this many times.
MaxUiEvents == 5

\* Native size of the camera video, in pixels.
VideoWidth == 8

VideoHeight == 2

\* Pixels of the canvas before the first capture (stands for the 300x150
\* default canvas, which is smaller than any scaled camera frame).
DefaultCanvasPixels == 4

\* The granularity of the clock.
ClockStep == 5 * 100

Labels == {"cup", "keys"}

\* What the user may type in the search box (" " trims to nothing).
Queries == {"", "cup"}

\* The credit balance the page passes in (creditBalance prop).
InitialBalances == {87, 90}

\* Scenes the camera may show; every pixel of a scene has the level below.
Scenes == {"dark", "bright"}

SceneLevel(s) == IF s = "dark" THEN 20 ELSE IF s = "dim" THEN 100 ELSE 220

(* ------------------------------ helpers ------------------------------- *)

Max(a, b) == IF a >= b THEN a ELSE b

Min(a, b) == IF a <= b THEN a ELSE b

Abs(a) == IF a >= 0 THEN a ELSE -a

RECURSIVE SumSeq(_)
SumSeq(s) == IF s = <<>> THEN 0 ELSE Head(s) + SumSeq(Tail(s))

\* String.prototype.trim on the modelled queries.
Trim(q) == IF q = " " THEN "" ELSE q

(* ------------------------ FrameDifferenceDetector --------------------- *)

\* lastFrameData = null
NoFrame == <<-1>>

threshold == 15

\* ctx.getImageData of a canvas showing scene s at npix pixels: RGBA bytes.
ImageData(s, npix) ==
  [i \in 1..(4 * npix) |-> IF i % 4 = 0 THEN 255 ELSE SceneLevel(s)]

\* The canvas element before anything was drawn: transparent black.
BlankImage == [i \in 1..(4 * DefaultCanvasPixels) |-> 0]

\* Byte i (0-based) of a Uint8ClampedArray; reading past the end is undefined.
Undefined == -1

ByteAt(data, i) == IF i + 1 <= Len(data) THEN data[i + 1] ELSE Undefined

\* The byte offsets the loop visits: i = 0, 16, 32, ... < data1.length.
SampleOffsets(data1) == {i \in 0..(Len(data1) - 1) : i % 16 = 0}

RECURSIVE SumOver(_, _, _)
SumOver(S, data1, data2) ==
  IF S = {} THEN 0
  ELSE LET i == CHOOSE j \in S : TRUE
       IN  Abs(ByteAt(data1, i) - ByteAt(data2, i))
           + Abs(ByteAt(data1, i + 1) - ByteAt(data2, i + 1))
           + Abs(ByteAt(data1, i + 2) - ByteAt(data2, i + 2))
           + SumOver(S \ {i}, data1, data2)

\* calculateFrameDifference: the score is the fraction num / den; it is NaN
\* when a sampled byte of either frame is undefined or when 0 is divided by 0.
calculateFrameDifference(frame1, frame2) ==
  LET S == SampleOffsets(frame1)
      undef == \E i \in S : \E k \in 0..2 :
                 ByteAt(frame1, i + k) = Undefined \/ ByteAt(frame2, i + k) = Undefined
  IN  IF undef \/ Len(frame1) = 0
      THEN [nan |-> TRUE, num |-> 0, den |-> 1]
      ELSE [nan |-> FALSE,
            num |-> 4 * SumOver(S, frame1, frame2),
            den |-> Len(frame1) * 255 * 3]

\* difference > this.threshold (false for NaN)
ExceedsThreshold(diff) ==
  ~diff.nan /\ diff.num * 100 > threshold * diff.den

\* Faulty variant: the stored sample is replaced only by a frame that is
\* processed (the comparison is against the last processed frame).
shouldProcessFrameKeepsProcessed(lastFrameData, currentFrameData) ==
  LET result == lastFrameData = NoFrame
                \/ ExceedsThreshold(
                     calculateFrameDifference(lastFrameData, currentFrameData))
  IN  [result |-> result,
       lastFrameData |-> IF result THEN currentFrameData ELSE lastFrameData]

\* shouldProcessFrame: [result, lastFrameData'] for the canvas content given.
shouldProcessFrame(lastFrameData, currentFrameData) ==
  IF lastFrameData = NoFrame
  THEN [result |-> TRUE, lastFrameData |-> currentFrameData]
  ELSE [result |-> ExceedsThreshold(
                     calculateFrameDifference(lastFrameData, currentFrameData)),
        lastFrameData |-> currentFrameData]

(* ----------------------------- ObjectTracker -------------------------- *)

\* The Map keeps insertion order: a sequence of entries, one per label.
LabelIndex(tr, label) ==
  IF \E i \in 1..Len(tr) : tr[i].label = label
  THEN CHOOSE i \in 1..Len(tr) : tr[i].label = label
  ELSE 0

\* `${label}-${Date.now()}`
MintTrackingId(label, t) == <<label, t>>

updateObject(tr, label, x, y, confidence, t) ==
  LET i == LabelIndex(tr, label)
      trackingId == IF i > 0 THEN tr[i].trackingId ELSE MintTrackingId(label, t)
      entry == [label |-> label, x |-> x, y |-> y, lastSeen |-> t,
                confidence |-> confidence, trackingId |-> trackingId]
  IN  IF i > 0 THEN [tr EXCEPT ![i] = entry] ELSE Append(tr, entry)

\* Faulty variant: the decay has no floor.
DecayedConfidenceNoFloor(confidence, age, maxAge) ==
  [n |-> confidence * 10 * (maxAge - age) * 10,
   d |-> 100 * 100 * maxAge]

\* Faulty variant: the factor is age / maxAge instead of 1 - age / maxAge.
DecayedConfidenceGrowing(confidence, age, maxAge) ==
  [n |-> confidence * Max(3 * maxAge, 10 * age) * 10,
   d |-> 100 * 100 * maxAge]

\* obj.confidence * Math.max(0.3, 1 - age / maxAge), as an exact fraction
\* of hundredths: n / d with d = 1000 * maxAge.
DecayedConfidence(confidence, age, maxAge) ==
  [n |-> confidence * Max(3 * maxAge, 10 * (maxAge - age)) * 10,
   d |-> 100 * 100 * maxAge]

EstimatedAge == 2000

\* Faulty variant: entries are never dropped for their age.
IsActiveAlways(obj, maxAge, t) == TRUE

\* now - obj.lastSeen < maxAge
IsActive(obj, maxAge, t) == t - obj.lastSeen < maxAge

TrackedPoint(obj, maxAge, t) ==
  [label |-> obj.label, x |-> obj.x, y |-> obj.y,
   confidence |-> DecayedConfidence(obj.confidence, t - obj.lastSeen, maxAge),
   timestamp |-> obj.lastSeen,
   estimated |-> (t - obj.lastSeen) > EstimatedAge,
   trackingId |-> obj.trackingId]

RECURSIVE MapActive(_, _, _)
MapActive(tr, maxAge, t) ==
  IF tr = <<>> THEN <<>>
  ELSE (IF IsActive(Head(tr), maxAge, t)
        THEN <<TrackedPoint(Head(tr), maxAge, t)>> ELSE <<>>)
       \o MapActive(Tail(tr), maxAge, t)

DefaultMaxAge == 5000

getTrackedObjects(tr, maxAge, t) == MapActive(tr, maxAge, t)

SkipWindow == 3000

\* Faulty variant: entries are not required to be fresh.
shouldSkipDetectionAnyRecent(tr, t) == Len(getTrackedObjects(tr, SkipWindow, t)) > 0

shouldSkipDetection(tr, t) ==
  LET recentObjects == getTrackedObjects(tr, SkipWindow, t)
  IN  Len(recentObjects) > 0
      /\ \A i \in 1..Len(recentObjects) : ~recentObjects[i].estimated

getCacheHitCount(tr, t) ==
  Cardinality({i \in 1..Len(tr) : t - tr[i].lastSeen < SkipWindow})

(* ----------------------- AdaptiveQualityController -------------------- *)

targetResponseTime == 1500

HistoryLimit == 10

InitialQuality == 70

MinQuality == 30

MaxQuality == 90

StepDown == 5

StepUp == 2

NewQualityController == [responseTimeHistory |-> <<>>, currentQuality |-> InitialQuality]

\* Faulty variant: a full history keeps its oldest sample and drops the new one.
PushHistoryDropsNewest(history, responseTime) ==
  IF Len(history) >= HistoryLimit THEN history ELSE Append(history, responseTime)

\* responseTimeHistory.push(responseTime), then shift() when longer than 10
PushHistory(history, responseTime) ==
  LET pushed == Append(history, responseTime)
  IN  IF Len(pushed) > HistoryLimit THEN Tail(pushed) ELSE pushed

\* Faulty variant: the steps are applied without Math.max / Math.min.
adjustQualityUnclamped(qc, responseTime) ==
  LET h == PushHistory(qc.responseTimeHistory, responseTime)
      sum == SumSeq(h)
      n == Len(h)
      q == qc.currentQuality
  IN  [responseTimeHistory |-> h,
       currentQuality |->
         IF sum > targetResponseTime * n THEN q - StepDown
         ELSE IF 10 * sum < 7 * targetResponseTime * n THEN q + StepUp
         ELSE q]

\* Faulty variant: the mean is taken before the new sample is pushed.
adjustQualityOldMean(qc, responseTime) ==
  LET old == qc.responseTimeHistory
      sum == SumSeq(old)
      n == Len(old)
      q == qc.currentQuality
  IN  [responseTimeHistory |-> PushHistory(old, responseTime),
       currentQuality |->
         IF sum > targetResponseTime * n THEN Max(MinQuality, q - StepDown)
         ELSE IF 10 * sum < 7 * targetResponseTime * n THEN Min(MaxQuality, q + StepUp)
         ELSE q]

\* adjustQuality: avgTime > target is sum > target * n; avgTime < target * 0.7
\* is 10 * sum < 7 * target * n.
adjustQuality(qc, responseTime) ==
  LET h == PushHistory(qc.responseTimeHistory, responseTime)
      sum == SumSeq(h)
      n == Len(h)
      q == qc.currentQuality
  IN  [responseTimeHistory |-> h,
       currentQuality |->
         IF sum > targetResponseTime * n THEN Max(MinQuality, q - StepDown)
         ELSE IF 10 * sum < 7 * targetResponseTime * n THEN Min(MaxQuality, q + StepUp)
         ELSE q]

getCurrentQuality(qc) == qc.currentQuality

\* Faulty variant: the thresholds are inclusive.
getRecommendedIntervalInclusive(qc) ==
  LET h == qc.responseTimeHistory
      n == Len(h)
      sum == SumSeq(h)
  IN  IF n = 0 THEN 1500
      ELSE IF sum >= 3000 * n THEN 4000
      ELSE IF sum >= 2000 * n THEN 3000
      ELSE IF sum >= 1000 * n THEN 2000
      ELSE 1500

\* getRecommendedInterval over the mean (0 for an empty history)
getRecommendedInterval(qc) ==
  LET h == qc.responseTimeHistory
      n == Len(h)
      sum == SumSeq(h)
  IN  IF n = 0 THEN 1500
      ELSE IF sum > 3000 * n THEN 4000
      ELSE IF sum > 2000 * n THEN 3000
      ELSE IF sum > 1000 * n THEN 2000
      ELSE 1500

(* --------------------------- remote responses ------------------------- *)

\* An item of data.results as the route returns it: point is [row, col] in
\* the remote [0,1000] range; confidence 0 stands for a falsy confidence.
Item(row, col, label, confidence) ==
  [point |-> <<row, col>>, label |-> label, confidence |-> confidence]

ResultLists ==
  { <<>>,
    <<Item(500, 500, "cup", 90)>>,
    <<Item(250, 750, "keys", 0), Item(100, 900, "cup", 60)>> }

\* What fetch() gives the tick: a rejection, a non-OK status, or a 200 whose
\* JSON body carries success and results.
NetworkError == [rejects |-> TRUE, ok |-> FALSE, success |-> FALSE, results |-> <<>>]

HttpError == [rejects |-> FALSE, ok |-> FALSE, success |-> FALSE, results |-> <<>>]

OkResponse(rs) == [rejects |-> FALSE, ok |-> TRUE, success |-> TRUE, results |-> rs]

Responses == {NetworkError, HttpError} \cup {OkResponse(rs) : rs \in ResultLists}

(* --------------------- the detection route (POST) ---------------------- *)

\* maxItems: 6 in the body the component posts (the route's default is 8).
maxItems == 6

\* An element of the array the model answered with. pointIsArray is
\* Array.isArray(item.point); label "" is a missing label, confidence 0 a
\* missing confidence.
RawItem(point, pointIsArray, label, confidence) ==
  [point |-> point, pointIsArray |-> pointIsArray, label |-> label,
   confidence |-> confidence]

GoodItem == RawItem(<<400, 600>>, TRUE, "cup", 70)

OtherGoodItem == RawItem(<<200, 300>>, TRUE, "keys", 0)

ThreeNumbers == RawItem(<<100, 200, 300>>, TRUE, "cup", 70)

NoLabel == RawItem(<<700, 800>>, TRUE, "", 70)

PointNotArray == RawItem(<<>>, FALSE, "keys", 70)

\* What generateContent comes back with: it throws; result.text is empty;
\* the text is prose without JSON; or the text holds a JSON value, an array
\* of items or something that is no array.
Thrown == [kind |-> "throws", isArray |-> FALSE, items |-> <<>>]

NoText == [kind |-> "none", isArray |-> FALSE, items |-> <<>>]

Prose == [kind |-> "prose", isArray |-> FALSE, items |-> <<>>]

JsonObject == [kind |-> "json", isArray |-> FALSE, items |-> <<>>]

JsonArray(items) == [kind |-> "json", isArray |-> TRUE, items |-> items]

ModelOutputs ==
  {Thrown, NoText, Prose, JsonObject}
    \cup {JsonArray(items) : items \in { <<>>, <<GoodItem>>, <<GoodItem, OtherGoodItem>>,
                                          <<GoodItem, ThreeNumbers>>, <<NoLabel, GoodItem>>,
                                          <<PointNotArray>> }}

\* JSON.parse(extractJSON(responseText)) succeeds
Parses(out) == out.kind = "json"

\* item.point && Array.isArray(item.point) && item.point.length === 2 && item.label
KeptByFilter(item) ==
  item.pointIsArray /\ Len(item.point) = 2 /\ item.label # ""

\* .map(item => ({point, label, confidence: item.confidence || 0.8, timestamp}));
\* the component does not read the timestamp.
EnhancedItem(item) ==
  Item(item.point[1], item.point[2], item.label,
       IF item.confidence = 0 THEN 80 ELSE item.confidence)

\* A value that is no array becomes []; the items are filtered one by one,
\* cut to maxItems and mapped.
enhancedResults(out) ==
  LET parsedResponse == IF out.isArray THEN out.items ELSE <<>>
      kept == SelectSeq(parsedResponse, KeptByFilter)
      cut == SubSeq(kept, 1, Min(Len(kept), maxItems))
  IN  [i \in 1..Len(cut) |-> EnhancedItem(cut[i])]

\* POST: what the component's fetch resolves with, and the model output it
\* came from.
POST(out) ==
  IF out.kind = "throws" \/ out.kind = "none" \/ ~Parses(out)
  THEN [rejects |-> FALSE, ok |-> FALSE, success |-> FALSE, results |-> <<>>,
        raw |-> out]
  ELSE [rejects |-> FALSE, ok |-> TRUE, success |-> TRUE,
        results |-> enhancedResults(out), raw |-> out]

RouteResponses == {POST(out) : out \in ModelOutputs}

\* The model output behind a response; NoRaw when the response is not
\* described down to the model output.
NoRaw == [kind |-> "unknown", isArray |-> FALSE, items |-> <<>>]

RawOf(resp) == IF "raw" \in DOMAIN resp THEN resp.raw ELSE NoRaw

(* ------------------------------ component ----------------------------- *)

VARIABLES
  now,                  \* Date.now()
  videoScene,           \* what the camera shows at this instant
  isStreaming, isDetecting, searchQuery, detectedObjects, currentBalance,
  optimizationsEnabled, metrics,
  streamRef,            \* TRUE while streamRef.current holds a MediaStream
  liveStreams,          \* MediaStreams acquired whose tracks were not stopped
  fpsTimers,            \* setInterval timers armed by startFPSCounter
  intervalRef,          \* id of the timer in intervalRef.current, 0 for null
  timers,               \* the armed setInterval(performSmartDetection) timers
  frameDiffDetector,    \* FrameDifferenceDetector.lastFrameData
  objectTracker,        \* ObjectTracker.trackedObjects, in insertion order
  qualityController,    \* AdaptiveQualityController
  canvas,               \* pixel content of the hidden canvas
  frameCountRef,
  requests,             \* detection ticks suspended at an await
  ledger,               \* updateCredits(userId, -3) calls and their outcome
  okResponses,          \* history: number of successful remote calls
  failedResponses,      \* history: number of remote calls that failed
  uiEvents,             \* history: number of user interactions so far
  sessionCache,         \* route module: sessionId -> [lastDetection]
  sessionCredits,       \* route module: sessionId -> [used, lastUpdate]
  sweepTimer,           \* route module: when the cleanup interval fires next
  served,               \* history: sessionId -> successful detections returned
  lastApplied,          \* history: startTime of the latest-issued tick whose
                        \* response has been applied (-1: none yet)
  transactions,         \* the Transaction collection: the documents stored
  deliveries,           \* webhook deliveries suspended at findOneAndUpdate
  granted               \* history, per polarId: deliveries received and
                        \* credits added by updateCredits

\* The payment side: the collection and the webhook handlers in flight.
payments == <<transactions, deliveries, granted>>

\* The state of the route module. The component's specifications know the
\* route by its responses only and leave this state alone; the route's own
\* handlers are the actions of SpecServer.
server == <<sessionCache, sessionCredits, sweepTimer, served>>

vars == <<now, videoScene, isStreaming, isDetecting, searchQuery, detectedObjects,
          currentBalance, optimizationsEnabled, metrics, streamRef, liveStreams,
          fpsTimers, intervalRef, timers, frameDiffDetector, objectTracker, qualityController, canvas,
          frameCountRef, requests, ledger, okResponses, failedResponses, server, lastApplied, payments, uiEvents>>

detectionInterval == 2000

\* 5 * 60 * 1000: the period of the cleanup interval and the idle time after
\* which it drops a session.
SweepPeriod == 300000

\* A Map without entries.
EmptyMap == [k \in {} |-> 0]

\* No order has been delivered yet.
InitPayments ==
  /\ transactions = {}
  /\ deliveries = {}
  /\ granted = EmptyMap

\* The route module as loaded: both Maps empty, the cleanup interval armed.
InitServer ==
  /\ sessionCache = EmptyMap
  /\ sessionCredits = EmptyMap
  /\ sweepTimer = SweepPeriod
  /\ served = EmptyMap

CreditCost == 3

GuardMinimum == 3

NoTrackingId == <<>>

InitialMetrics ==
  [fps |-> 0, avgResponseTime |-> 0, skippedFrames |-> 0, detectionCount |-> 0,
   qualityLevel |-> InitialQuality, cacheHits |-> 0]

InitialOptimizations ==
  [frameDifference |-> TRUE, objectTracking |-> TRUE,
   adaptiveQuality |-> TRUE, smartSkipping |-> TRUE]

OptimizationKeys == {"frameDifference", "objectTracking", "adaptiveQuality", "smartSkipping"}

Init ==
  /\ now = 0
  /\ videoScene \in Scenes
  /\ isStreaming = FALSE
  /\ isDetecting = FALSE
  /\ searchQuery = ""
  /\ detectedObjects = <<>>
  /\ currentBalance \in InitialBalances
  /\ optimizationsEnabled = InitialOptimizations
  /\ metrics = InitialMetrics
  /\ streamRef = FALSE
  /\ liveStreams = 0
  /\ fpsTimers = 0
  /\ intervalRef = 0
  /\ timers = {}
  /\ frameDiffDetector = NoFrame
  /\ objectTracker = <<>>
  /\ qualityController = NewQualityController
  /\ canvas = BlankImage
  /\ frameCountRef = 0
  /\ requests = {}
  /\ ledger = [calls |-> 0, requested |-> 0, applied |-> 0]
  /\ okResponses = 0
  /\ failedResponses = 0
  /\ InitServer
  /\ lastApplied = 0 - 1
  /\ InitPayments
  /\ uiEvents = 0

(* ------------------------------- timers ------------------------------- *)

\* setInterval: the new timer gets an id no armed timer has.
FreshTimerId == CHOOSE i \in 1..(Cardinality(timers) + 1) : \A t \in timers : t.id # i

\* Faulty variant: the timer is left armed.
clearIntervalLeavesTimer(ts, id) == ts

\* clearInterval(id)
clearInterval(ts, id) == {t \in ts : t.id # id}

(* ---------------------------- camera control --------------------------- *)

\* How an attempt to start the camera ends: getUserMedia rejects; the stream
\* is acquired but video.play() rejects; or the video plays.
CameraOutcomes == {"denied", "playFails", "granted"}

\* startVideoStream. The stream is stored in streamRef as soon as it is
\* acquired; isStreaming and the FPS counter follow only when play() resolves.
StartVideoStream ==
  /\ uiEvents < MaxUiEvents
  /\ uiEvents' = uiEvents + 1
  /\ ~isStreaming
  /\ \E outcome \in CameraOutcomes :
       /\ streamRef' = (IF outcome = "denied" THEN streamRef ELSE TRUE)
       /\ liveStreams' = (IF outcome = "denied" THEN liveStreams ELSE liveStreams + 1)
       /\ isStreaming' = (outcome = "granted")
       /\ fpsTimers' = (IF outcome = "granted" THEN fpsTimers + 1 ELSE fpsTimers)
  /\ UNCHANGED <<now, videoScene, isDetecting, searchQuery, detectedObjects,
                 currentBalance, optimizationsEnabled, metrics, intervalRef, timers,
                 frameDiffDetector, objectTracker, qualityController, canvas,
                 frameCountRef, requests, ledger, okResponses, failedResponses, server, lastApplied, payments>>

\* stopVideoStream (the Stop Camera button). The FPS timers are not cleared.
StopVideoStream ==
  /\ uiEvents < MaxUiEvents
  /\ uiEvents' = uiEvents + 1
  /\ isStreaming
  /\ streamRef' = FALSE
  /\ liveStreams' = (IF streamRef THEN liveStreams - 1 ELSE liveStreams)
  /\ timers' = IF intervalRef # 0 THEN clearInterval(timers, intervalRef) ELSE timers
  /\ intervalRef' = 0
  /\ isStreaming' = FALSE
  /\ isDetecting' = FALSE
  /\ detectedObjects' = <<>>
  /\ UNCHANGED <<now, videoScene, searchQuery, currentBalance, optimizationsEnabled,
                 metrics, fpsTimers, frameDiffDetector, objectTracker,
                 qualityController, canvas, frameCountRef, requests, ledger,
                 okResponses, failedResponses, server, lastApplied, payments>>

\* The search box is disabled while detecting.
SetSearchQuery ==
  /\ uiEvents < MaxUiEvents
  /\ uiEvents' = uiEvents + 1
  /\ ~isDetecting
  /\ \E q \in Queries : q # searchQuery /\ searchQuery' = q
  /\ UNCHANGED <<now, videoScene, isStreaming, isDetecting, detectedObjects,
                 currentBalance, optimizationsEnabled, metrics, streamRef, liveStreams, fpsTimers, intervalRef,
                 timers, frameDiffDetector, objectTracker, qualityController, canvas,
                 frameCountRef, requests, ledger, okResponses, failedResponses, server, lastApplied, payments>>

\* A checkbox of the optimization panel (shown only while streaming).
SetOptimization ==
  /\ uiEvents < MaxUiEvents
  /\ uiEvents' = uiEvents + 1
  /\ isStreaming
  /\ \E key \in OptimizationKeys :
       optimizationsEnabled' =
         [optimizationsEnabled EXCEPT ![key] = ~optimizationsEnabled[key]]
  /\ UNCHANGED <<now, videoScene, isStreaming, isDetecting, searchQuery,
                 detectedObjects, currentBalance, metrics, streamRef, liveStreams, fpsTimers, intervalRef,
                 timers, frameDiffDetector, objectTracker, qualityController, canvas,
                 frameCountRef, requests, ledger, okResponses, failedResponses, server, lastApplied, payments>>

(* -------------------------- detection control -------------------------- *)

CeilDiv(a, b) == (a + b - 1) \div b

\* validateCreditsForDetection
validateCreditsForDetection ==
  currentBalance >= CeilDiv(60000, detectionInterval) * CreditCost

\* The closure setInterval keeps calling: performSmartDetection as rendered
\* when the button was clicked, with that render's state.
Closure ==
  [searchQuery |-> searchQuery, currentBalance |-> currentBalance,
   optimizationsEnabled |-> optimizationsEnabled]

ArmedInterval ==
  IF optimizationsEnabled.adaptiveQuality
  THEN getRecommendedInterval(qualityController)
  ELSE detectionInterval

\* The button is rendered while streaming and disabled without a query or
\* with a balance below 3.
ToggleSmartDetection ==
  /\ uiEvents < MaxUiEvents
  /\ uiEvents' = uiEvents + 1
  /\ isStreaming
  /\ Trim(searchQuery) # ""
  /\ currentBalance >= GuardMinimum
  /\ IF isDetecting
     THEN /\ timers' = IF intervalRef # 0 THEN clearInterval(timers, intervalRef) ELSE timers
          /\ intervalRef' = 0
          /\ isDetecting' = FALSE
     ELSE IF ~validateCreditsForDetection
     THEN UNCHANGED <<timers, intervalRef, isDetecting>>
     ELSE /\ isDetecting' = TRUE
          /\ intervalRef' = FreshTimerId
          /\ timers' = timers \cup
               {[id |-> FreshTimerId, armedAt |-> now, nextFire |-> now + ArmedInterval,
                 interval |-> ArmedInterval, closure |-> Closure]}
  /\ UNCHANGED <<now, videoScene, isStreaming, searchQuery, detectedObjects,
                 currentBalance, optimizationsEnabled, metrics, streamRef, liveStreams, fpsTimers,
                 frameDiffDetector, objectTracker, qualityController, canvas,
                 frameCountRef, requests, ledger, okResponses, failedResponses, server, lastApplied, payments>>

(* ------------------------------ the tick ------------------------------- *)

\* if (!searchQuery.trim() || currentBalance < 3) return;  -- both read from
\* the closure the timer was armed with.
GuardAborts(c) == Trim(c.searchQuery) = "" \/ c.currentBalance < GuardMinimum

\* canvas.width = video.videoWidth * scale, scale = 0.5 + quality * 0.5
\* (the canvas truncates to whole pixels).
CanvasPixels(quality) ==
  ((VideoWidth * (100 + quality)) \div 200) * ((VideoHeight * (100 + quality)) \div 200)

\* captureOptimizedFrame: what ctx.drawImage leaves on the canvas.
captureOptimizedFrame(scene, qc) == ImageData(scene, CanvasPixels(getCurrentQuality(qc)))

\* What shouldProcessFrame(canvasRef.current) reads: the canvas as it is when
\* the check runs, that is before this tick's captureOptimizedFrame.
MotionCheckInput(canvasNow, scene, qc) == canvasNow

\* Faulty variant: the skip branch publishes with the skip window as maxAge.
SkipPublishesRecent(tr, t) == getTrackedObjects(tr, SkipWindow, t)

\* setDetectedObjects(objectTracker.current.getTrackedObjects()) of the skip branch
SkipPublishes(tr, t) == getTrackedObjects(tr, DefaultMaxAge, t)

\* The tick suspended at `await fetch(...)`: what the rest of the function
\* still reads of its closure (the two flags) and its startTime.
NewRequest(c) ==
  [startTime |-> now,
   objectTracking |-> c.optimizationsEnabled.objectTracking,
   adaptiveQuality |-> c.optimizationsEnabled.adaptiveQuality,
   phase |-> "fetch", ok |-> FALSE, responseTime |-> 0, results |-> <<>>,
   raw |-> NoRaw]

AwaitingFetch == {r \in requests : r.phase = "fetch"}

\* One firing of setInterval(performSmartDetection, interval), up to the
\* await of fetch().
PerformSmartDetection ==
  \E t \in timers :
    /\ t.nextFire = now
    /\ timers' = (timers \ {t}) \cup {[t EXCEPT !.nextFire = now + t.interval]}
    /\ LET c == t.closure
           opts == c.optimizationsEnabled
           fd == shouldProcessFrame(frameDiffDetector,
                                    MotionCheckInput(canvas, videoScene, qualityController))
       IN  IF GuardAborts(c)
           THEN UNCHANGED <<metrics, detectedObjects, frameDiffDetector, canvas,
                            frameCountRef, requests>>
           ELSE IF opts.smartSkipping /\ shouldSkipDetection(objectTracker, now)
           THEN /\ metrics' = [metrics EXCEPT
                                 !.skippedFrames = @ + 1,
                                 !.cacheHits = getCacheHitCount(objectTracker, now)]
                /\ detectedObjects' = SkipPublishes(objectTracker, now)
                /\ UNCHANGED <<frameDiffDetector, canvas, frameCountRef, requests>>
           ELSE IF opts.frameDifference /\ ~fd.result
           THEN /\ frameDiffDetector' = fd.lastFrameData
                /\ metrics' = [metrics EXCEPT !.skippedFrames = @ + 1]
                /\ UNCHANGED <<detectedObjects, canvas, frameCountRef, requests>>
           ELSE /\ Cardinality(AwaitingFetch) < MaxInFlight
                /\ frameDiffDetector' =
                     IF opts.frameDifference THEN fd.lastFrameData ELSE frameDiffDetector
                /\ canvas' = captureOptimizedFrame(videoScene, qualityController)
                /\ frameCountRef' = frameCountRef + 1
                /\ requests' = requests \cup {NewRequest(c)}
                /\ UNCHANGED <<metrics, detectedObjects>>
    /\ UNCHANGED <<now, videoScene, isStreaming, isDetecting, searchQuery,
                   currentBalance, optimizationsEnabled, streamRef, liveStreams, fpsTimers, intervalRef,
                   objectTracker, qualityController, ledger, okResponses, failedResponses, server, lastApplied, payments, uiEvents>>

\* Faulty variant: the status of the response is not looked at.
IsSuccessIgnoringStatus(resp) == ~resp.rejects

\* Faulty variant: every settled fetch is taken for a success.
IsSuccessAlways(resp) == TRUE

\* response.ok && data.success && data.results
IsSuccess(resp) == ~resp.rejects /\ resp.ok /\ resp.success

\* The remote call itself succeeded: a 200 carrying success and results.
RemoteSucceeded(resp) == resp \in {OkResponse(rs) : rs \in ResultLists}

\* Faulty variant: the charge request is counted twice.
RequestChargeTwice(l) ==
  [l EXCEPT !.calls = @ + 2, !.requested = @ + 2 * CreditCost]

\* await updateCredits(userId, -3): one request to the ledger, for 3 credits.
RequestCharge(l) ==
  [l EXCEPT !.calls = @ + 1, !.requested = @ + CreditCost]

\* fetch() settles. A success goes on to `await updateCredits(userId, -3)`;
\* anything else ends the tick (the catch block, or no branch taken).
FetchSettlesWith(possible) ==
  \E r \in AwaitingFetch : \E resp \in possible :
    /\ IF IsSuccess(resp)
       THEN /\ requests' = (requests \ {r}) \cup
                 {[r EXCEPT !.phase = "credits",
                            !.ok = resp.ok,
                            !.responseTime = now - r.startTime,
                            !.results = resp.results,
                            !.raw = RawOf(resp)]}
            /\ ledger' = RequestCharge(ledger)
       ELSE /\ requests' = requests \ {r}
            /\ UNCHANGED ledger
    /\ okResponses' = okResponses + (IF RemoteSucceeded(resp) THEN 1 ELSE 0)
    /\ failedResponses' = failedResponses + (IF RemoteSucceeded(resp) THEN 0 ELSE 1)
    /\ UNCHANGED <<now, videoScene, isStreaming, isDetecting, searchQuery,
                   detectedObjects, currentBalance, optimizationsEnabled, metrics,
                   streamRef, liveStreams, fpsTimers, intervalRef, timers, frameDiffDetector, objectTracker,
                   qualityController, canvas, frameCountRef, uiEvents, server, lastApplied, payments>>

FetchSettles == FetchSettlesWith(Responses)

\* item.confidence || 0.8
ConfidenceOr(confidence) == IF confidence = 0 THEN 80 ELSE confidence

\* Faulty variant: row and column are taken the other way round.
NewObjectTransposed(item, t) ==
  [label |-> item.label, x |-> item.point[1], y |-> item.point[2],
   confidence |-> [n |-> ConfidenceOr(item.confidence), d |-> 100],
   timestamp |-> t, estimated |-> FALSE, trackingId |-> NoTrackingId]

\* data.results.map(...): x = point[1] / 1000, y = point[0] / 1000. The object
\* literal has no `estimated` and no `trackingId` field; every reader tests
\* `estimated` for truth, so the missing field is FALSE here.
NewObject(item, t) ==
  [label |-> item.label, x |-> item.point[2], y |-> item.point[1],
   confidence |-> [n |-> ConfidenceOr(item.confidence), d |-> 100],
   timestamp |-> t, estimated |-> FALSE, trackingId |-> NoTrackingId]

NewObjects(results, t) == [i \in 1..Len(results) |-> NewObject(results[i], t)]

RECURSIVE UpdateAll(_, _, _)
UpdateAll(tr, results, t) ==
  IF results = <<>> THEN tr
  ELSE UpdateAll(updateObject(tr, Head(results).label, Head(results).point[2],
                              Head(results).point[1],
                              ConfidenceOr(Head(results).confidence), t),
                 Tail(results), t)

\* Faulty variant: the tracked objects are appended without the label filter.
MergeObjectsKeepsAll(newObjects, tracked) == newObjects \o tracked

\* [...newObjects, ...tracked.filter(label not among newObjects)]
MergeObjects(newObjects, tracked) ==
  LET fresh(obj) == \A i \in 1..Len(newObjects) : newObjects[i].label # obj.label
  IN  newObjects \o SelectSeq(tracked, fresh)

\* Faulty variant: the rejection of updateCredits leaves the inner try and
\* reaches the outer catch.
CreditErrorEscapes == FALSE

\* catch (creditError) { console.error(...) }: a rejection of updateCredits is
\* caught next to the call and the tick goes on.
CreditErrorCaught == TRUE

\* updateCredits settles (resolves or throws) and the tick runs to its end.
UpdateCreditsSettles ==
  \E r \in requests : \E charged \in BOOLEAN :
    /\ r.phase = "credits"
    /\ LET opts == r
           newObjects == NewObjects(r.results, now)
           tracker == IF opts.objectTracking
                      THEN UpdateAll(objectTracker, r.results, now)
                      ELSE objectTracker
           allObjects == IF opts.objectTracking
                         THEN MergeObjects(newObjects,
                                getTrackedObjects(tracker, DefaultMaxAge, now))
                         ELSE newObjects
           qc == IF opts.adaptiveQuality
                 THEN adjustQuality(qualityController, r.responseTime)
                 ELSE qualityController
       IN  IF charged \/ CreditErrorCaught
           THEN /\ ledger' = IF charged THEN [ledger EXCEPT !.applied = @ + CreditCost]
                             ELSE ledger
                /\ currentBalance' =
                     (IF charged THEN currentBalance - 3 ELSE currentBalance) - 3
                /\ objectTracker' = tracker
                /\ detectedObjects' = allObjects
                /\ qualityController' = qc
                /\ lastApplied' = Max(lastApplied, r.startTime)
                /\ metrics' = [metrics EXCEPT
                                 !.avgResponseTime = r.responseTime,
                                 !.detectionCount = @ + 1,
                                 \* the updater runs at the next render, after adjustQuality
                                 !.qualityLevel = getCurrentQuality(qc),
                                 !.cacheHits = getCacheHitCount(tracker, now)]
           ELSE UNCHANGED <<ledger, currentBalance, objectTracker, detectedObjects,
                            qualityController, metrics, lastApplied>>
    /\ requests' = requests \ {r}
    /\ UNCHANGED <<now, videoScene, isStreaming, isDetecting, searchQuery,
                   optimizationsEnabled, streamRef, liveStreams, fpsTimers, intervalRef, timers,
                   frameDiffDetector, canvas, frameCountRef, okResponses, failedResponses, server, payments,
                   uiEvents>>

(* ------------------------------- the clock ----------------------------- *)

\* Time passes; a due timer fires before the clock moves on.
AdvanceTo(limit) ==
  /\ now < limit * ClockStep
  /\ \A t \in timers : t.nextFire > now
  /\ now' = now + ClockStep
  /\ videoScene' \in Scenes
  /\ UNCHANGED <<isStreaming, isDetecting, searchQuery, detectedObjects,
                 currentBalance, optimizationsEnabled, metrics, streamRef, liveStreams, fpsTimers, intervalRef,
                 timers, frameDiffDetector, objectTracker, qualityController, canvas,
                 frameCountRef, requests, ledger, okResponses, failedResponses, server, lastApplied, payments, uiEvents>>

Advance == AdvanceTo(MaxClockSteps)

Next ==
  \/ StartVideoStream
  \/ StopVideoStream
  \/ SetSearchQuery
  \/ SetOptimization
  \/ ToggleSmartDetection
  \/ PerformSmartDetection
  \/ FetchSettles
  \/ UpdateCreditsSettles
  \/ Advance

Spec == Init /\ [][Next]_vars

(* ------------------- a long session with prompt responses -------------- *)

\* The session may last this many clock steps.
SessionClockSteps == 48

\* The camera and the remote detector of a long uneventful session: every
\* call succeeds with no object found, and settles before the clock moves.
EmptySuccess == FetchSettlesWith({OkResponse(<<>>)})

SessionAdvance == requests = {} /\ AdvanceTo(SessionClockSteps)

NextSession ==
  \/ StartVideoStream
  \/ SetSearchQuery
  \/ ToggleSmartDetection
  \/ PerformSmartDetection
  \/ EmptySuccess
  \/ UpdateCreditsSettles
  \/ SessionAdvance

SpecSession == Init /\ [][NextSession]_vars

(* ------------------- sessions ended by stopping the camera ------------- *)

\* The page once the user has typed the search target.
InitRestart ==
  /\ now = 0
  /\ videoScene \in Scenes
  /\ isStreaming = FALSE
  /\ isDetecting = FALSE
  /\ searchQuery = "cup"
  /\ detectedObjects = <<>>
  /\ currentBalance = 90
  /\ optimizationsEnabled = InitialOptimizations
  /\ metrics = InitialMetrics
  /\ streamRef = FALSE
  /\ liveStreams = 0
  /\ fpsTimers = 0
  /\ intervalRef = 0
  /\ timers = {}
  /\ frameDiffDetector = NoFrame
  /\ objectTracker = <<>>
  /\ qualityController = NewQualityController
  /\ canvas = BlankImage
  /\ frameCountRef = 0
  /\ requests = {}
  /\ ledger = [calls |-> 0, requested |-> 0, applied |-> 0]
  /\ okResponses = 0
  /\ failedResponses = 0
  /\ InitServer
  /\ lastApplied = 0 - 1
  /\ InitPayments
  /\ uiEvents = 0

\* Detection is started and never paused: it ends when the camera is stopped.
StartDetection == ~isDetecting /\ ToggleSmartDetection

NextRestart ==
  \/ StartVideoStream
  \/ StopVideoStream
  \/ StartDetection
  \/ PerformSmartDetection
  \/ FetchSettles
  \/ UpdateCreditsSettles
  \/ Advance

SpecRestart == InitRestart /\ [][NextRestart]_vars

(* --------------- the same sessions, with what is scheduled ------------- *)

\* What the runtime guarantees to happen: time passes, an armed timer fires
\* when it is due, and the server action updateCredits returns. Nothing makes
\* fetch() settle: the call is made without a signal or a timeout, so the
\* endpoint is free never to answer.
FairRestart ==
  /\ WF_vars(Advance)
  /\ WF_vars(PerformSmartDetection)
  /\ WF_vars(UpdateCreditsSettles)

SpecFairRestart == InitRestart /\ [][NextRestart]_vars /\ FairRestart

(* --------------- the route given answers nobody validates -------------- *)

\* An item whose row is beyond the 0-1000 range the prompt asks for, with a
\* confidence above 1.
OutOfRange == RawItem(<<1200, 500>>, TRUE, "keys", 150)

\* A second point with the label of GoodItem.
SecondCup == RawItem(<<100, 900>>, TRUE, "cup", 60)

\* Answers of the model that are well-formed JSON arrays of items with a
\* two-element point and a label: the route's filter keeps every item.
UncheckedOutputs ==
  {JsonArray(items) : items \in { <<GoodItem>>, <<OutOfRange>>, <<GoodItem, SecondCup>> }}

UncheckedSettles == FetchSettlesWith({POST(out) : out \in UncheckedOutputs})

NextUnchecked ==
  \/ StartVideoStream
  \/ StartDetection
  \/ PerformSmartDetection
  \/ UncheckedSettles
  \/ UpdateCreditsSettles
  \/ Advance

SpecUnchecked == InitRestart /\ [][NextUnchecked]_vars

(* ------------------ the component behind the real route --------------- *)

\* fetch() settles with what the route makes of the model's output.
RouteSettles == FetchSettlesWith(RouteResponses)

NextRoute ==
  \/ StartVideoStream
  \/ StartDetection
  \/ PerformSmartDetection
  \/ RouteSettles
  \/ UpdateCreditsSettles
  \/ Advance

SpecRoute == InitRestart /\ [][NextRoute]_vars

(* --------------------- the ObjectTracker on its own -------------------- *)

\* The tracker is observed for this many steps of its clock (one ClockStep each).
TrackerClockSteps == 7

RECURSIVE ItemsOf(_)
ItemsOf(results) ==
  IF results = <<>> THEN {} ELSE {Head(results)} \cup ItemsOf(Tail(results))

TrackerInputs == UNION {ItemsOf(rs) : rs \in ResultLists}

\* objectTracker.current.updateObject(obj.label, obj.x, obj.y, obj.confidence)
\* for one of the items given.
TrackerUpdateWith(inputs) ==
  /\ \E item \in inputs :
       objectTracker' = updateObject(objectTracker, item.label, item.point[2],
                                     item.point[1], ConfidenceOr(item.confidence), now)
  /\ UNCHANGED <<now, videoScene, isStreaming, isDetecting, searchQuery,
                 detectedObjects, currentBalance, optimizationsEnabled, metrics,
                 streamRef, liveStreams, fpsTimers, intervalRef, timers, frameDiffDetector, qualityController,
                 canvas, frameCountRef, requests, ledger, okResponses, failedResponses, server, lastApplied, payments,
                 uiEvents>>

TrackerUpdate == TrackerUpdateWith(TrackerInputs)

\* A reader of the tracker: the skip decision, the cache-hit count and, when
\* the decision is to skip, the tracked objects published.
TrackerRead ==
  /\ metrics' = [metrics EXCEPT !.cacheHits = getCacheHitCount(objectTracker, now)]
  /\ detectedObjects' = IF shouldSkipDetection(objectTracker, now)
                        THEN SkipPublishes(objectTracker, now)
                        ELSE <<>>
  /\ UNCHANGED <<now, videoScene, isStreaming, isDetecting, searchQuery,
                 currentBalance, optimizationsEnabled, streamRef, liveStreams, fpsTimers, intervalRef, timers,
                 frameDiffDetector, objectTracker, qualityController, canvas,
                 frameCountRef, requests, ledger, okResponses, failedResponses, server, lastApplied, payments,
                 uiEvents>>

TrackerClockTo(limit) ==
  /\ now < limit * ClockStep
  /\ now' = now + ClockStep
  /\ UNCHANGED <<videoScene, isStreaming, isDetecting, searchQuery, detectedObjects,
                 currentBalance, optimizationsEnabled, metrics, streamRef, liveStreams, fpsTimers, intervalRef,
                 timers, frameDiffDetector, objectTracker, qualityController, canvas,
                 frameCountRef, requests, ledger, okResponses, failedResponses, server, lastApplied, payments,
                 uiEvents>>

TrackerClock == TrackerClockTo(TrackerClockSteps)

NextTracker == TrackerUpdate \/ TrackerRead \/ TrackerClock

\* The tracker of a freshly mounted component (the camera and the balance
\* play no part).
InitTracker == Init /\ videoScene = "dark" /\ currentBalance = 90

SpecTracker == InitTracker /\ [][NextTracker]_vars

(* ------------- the ObjectTracker over a long gap, one label ------------ *)

\* The tracker is observed for this many steps of its clock, long enough for
\* an entry to outlive DefaultMaxAge.
IdentityClockSteps == 11

\* The same object reported again and again.
ObserveCup == TrackerUpdateWith({Item(500, 500, "cup", 90)})

IdentityClock == TrackerClockTo(IdentityClockSteps)

NextIdentity == ObserveCup \/ TrackerRead \/ IdentityClock

SpecIdentity == InitTracker /\ [][NextIdentity]_vars

(* ------------------------ the route module's state --------------------- *)

\* The route handles at most this many requests that carry a sessionId.
MaxPosts == 3

\* The route is observed for this many steps of half a sweep period.
ServerClockSteps == 6

ServerClockStep == SweepPeriod \div 2

SessionIds == {"session-1", "session-2"}

\* A request body without sessionId.
NoSession == ""

\* Map.set(key, value)
MapSet(map, key, value) ==
  [k \in DOMAIN map \cup {key} |-> IF k = key THEN value ELSE map[k]]

\* The requests counted so far: used grows by 3 with each.
PostsCounted ==
  LET RECURSIVE Sum(_)
      Sum(S) == IF S = {} THEN 0
                ELSE LET k == CHOOSE x \in S : TRUE
                     IN  sessionCredits[k].used + Sum(S \ {k})
  IN  Sum(DOMAIN sessionCredits) \div 3

\* POST. A body without imageData or prompt is answered 400 before anything
\* else. Otherwise the session's counter is raised by 3 and its lastUpdate
\* set, before the model is called; then the model's output decides the
\* response. sessionCache is not written.
Post ==
  /\ PostsCounted < MaxPosts
  /\ \E sessionId \in SessionIds \cup {NoSession}, complete \in BOOLEAN, out \in ModelOutputs :
       IF ~complete \/ sessionId = NoSession
       THEN UNCHANGED <<sessionCredits, served>>
       ELSE LET session == IF sessionId \in DOMAIN sessionCredits
                           THEN sessionCredits[sessionId]
                           ELSE [used |-> 0, lastUpdate |-> now]
                count == IF sessionId \in DOMAIN served THEN served[sessionId] ELSE 0
            IN  /\ sessionCredits' =
                     MapSet(sessionCredits, sessionId,
                            [used |-> session.used + 3, lastUpdate |-> now])
                /\ served' =
                     MapSet(served, sessionId,
                            count + (IF POST(out).success THEN 1 ELSE 0))
  /\ UNCHANGED <<now, videoScene, isStreaming, isDetecting, searchQuery,
                 detectedObjects, currentBalance, optimizationsEnabled, metrics,
                 streamRef, liveStreams, fpsTimers, intervalRef, timers,
                 frameDiffDetector, objectTracker, qualityController, canvas,
                 frameCountRef, requests, ledger, okResponses, failedResponses,
                 uiEvents, sessionCache, sweepTimer, lastApplied, payments>>

\* The callback of the module's setInterval: entries of sessionCache whose
\* lastDetection is more than five minutes old are deleted.
Sweep ==
  /\ sweepTimer = now
  /\ sweepTimer' = now + SweepPeriod
  /\ sessionCache' =
       [k \in {x \in DOMAIN sessionCache :
                 ~(sessionCache[x].lastDetection < now - SweepPeriod)}
          |-> sessionCache[k]]
  /\ UNCHANGED <<now, videoScene, isStreaming, isDetecting, searchQuery,
                 detectedObjects, currentBalance, optimizationsEnabled, metrics,
                 streamRef, liveStreams, fpsTimers, intervalRef, timers,
                 frameDiffDetector, objectTracker, qualityController, canvas,
                 frameCountRef, requests, ledger, okResponses, failedResponses,
                 uiEvents, sessionCredits, served, lastApplied, payments>>

ServerClock ==
  /\ now < ServerClockSteps * ServerClockStep
  /\ sweepTimer > now
  /\ now' = now + ServerClockStep
  /\ UNCHANGED <<videoScene, isStreaming, isDetecting, searchQuery,
                 detectedObjects, currentBalance, optimizationsEnabled, metrics,
                 streamRef, liveStreams, fpsTimers, intervalRef, timers,
                 frameDiffDetector, objectTracker, qualityController, canvas,
                 frameCountRef, requests, ledger, okResponses, failedResponses,
                 uiEvents, server, lastApplied, payments>>

NextServer == Post \/ Sweep \/ ServerClock

SpecServer == InitTracker /\ [][NextServer]_vars

(* ----------------------- paid orders (createTransaction) --------------- *)

\* The webhook is delivered at most this many times.
MaxDeliveries == 3

\* The clock of the payment side advances at most this many times.
PaymentClockSteps == 2

PolarIds == {"order-1", "order-2"}

\* metadata.credits of the order
OrderCredits == 100

\* The deliveries received so far, of all orders.
DeliveriesReceived ==
  LET RECURSIVE Sum(_)
      Sum(S) == IF S = {} THEN 0
                ELSE LET k == CHOOSE x \in S : TRUE
                     IN  granted[k].deliveries + Sum(S \ {k})
  IN  Sum(DOMAIN granted)

\* A Date object: the instant it holds and the object it is.
DateObject(ref, time) == [ref |-> ref, time |-> time]

\* The webhook's POST for an order.paid event: the transaction is built with
\* createdAt: new Date() and createTransaction is called, which awaits the
\* database connection and then findOneAndUpdate.
WebhookReceives ==
  /\ DeliveriesReceived < MaxDeliveries
  /\ \E polarId \in PolarIds :
       LET id == DeliveriesReceived + 1
           sofar == IF polarId \in DOMAIN granted THEN granted[polarId]
                    ELSE [deliveries |-> 0, credits |-> 0]
       IN  /\ deliveries' = deliveries \cup
                 {[id |-> id, polarId |-> polarId, credits |-> OrderCredits,
                   createdAt |-> DateObject(<<"webhook", id>>, now)]}
           /\ granted' = MapSet(granted, polarId,
                                [sofar EXCEPT !.deliveries = @ + 1])
  /\ UNCHANGED <<now, videoScene, isStreaming, isDetecting, searchQuery,
                 detectedObjects, currentBalance, optimizationsEnabled, metrics,
                 streamRef, liveStreams, fpsTimers, intervalRef, timers,
                 frameDiffDetector, objectTracker, qualityController, canvas,
                 frameCountRef, requests, ledger, okResponses, failedResponses,
                 uiEvents, server, lastApplied, transactions>>

\* a === b for two Date objects: true only if they are the same object.
StrictEquals(a, b) == a.ref = b.ref

\* findOneAndUpdate({polarId}, {$setOnInsert: ...}, {upsert: true, new: true}):
\* the collection after the call. A document is inserted only if none has
\* the polarId; what is stored of createdAt is its instant.
Upserted(d) ==
  IF \E doc \in transactions : doc.polarId = d.polarId
  THEN transactions
  ELSE transactions \cup {[polarId |-> d.polarId, credits |-> d.credits,
                           createdAt |-> d.createdAt.time]}

\* The document the call returns, hydrated for this caller: its createdAt is
\* a Date object built from the stored instant.
ExistingOrNew(d) ==
  LET doc == CHOOSE doc \in Upserted(d) : doc.polarId = d.polarId
  IN  [polarId |-> doc.polarId, credits |-> doc.credits,
       createdAt |-> DateObject(<<"document", d.id>>, doc.createdAt)]

\* findOneAndUpdate settles and createTransaction goes on: the credits are
\* added when existingOrNew.createdAt === transaction.createdAt, and the
\* call is logged as a duplicate otherwise.
UpsertSettles ==
  /\ \E d \in deliveries :
       /\ transactions' = Upserted(d)
       /\ granted' = IF StrictEquals(ExistingOrNew(d).createdAt, d.createdAt)
                     THEN [granted EXCEPT ![d.polarId].credits = @ + d.credits]
                     ELSE granted
       /\ deliveries' = deliveries \ {d}
  /\ UNCHANGED <<now, videoScene, isStreaming, isDetecting, searchQuery,
                 detectedObjects, currentBalance, optimizationsEnabled, metrics,
                 streamRef, liveStreams, fpsTimers, intervalRef, timers,
                 frameDiffDetector, objectTracker, qualityController, canvas,
                 frameCountRef, requests, ledger, okResponses, failedResponses,
                 uiEvents, server, lastApplied>>

\* Time passes between deliveries: the sender repeats a delivery later.
PaymentsClock ==
  /\ now < PaymentClockSteps * ClockStep
  /\ now' = now + ClockStep
  /\ UNCHANGED <<videoScene, isStreaming, isDetecting, searchQuery,
                 detectedObjects, currentBalance, optimizationsEnabled, metrics,
                 streamRef, liveStreams, fpsTimers, intervalRef, timers,
                 frameDiffDetector, objectTracker, qualityController, canvas,
                 frameCountRef, requests, ledger, okResponses, failedResponses,
                 uiEvents, server, lastApplied, payments>>

NextPayments == WebhookReceives \/ UpsertSettles \/ PaymentsClock

SpecPayments == InitTracker /\ [][NextPayments]_vars

(* ---------------- the FrameDifferenceDetector on its own -------------- *)

\* The motion check runs at most this many times.
MaxFrameChecks == 3

\* Scenes of three brightness levels, so that frames differ a little, by
\* about a third of the range, and by most of it.
FrameScenes == {"dark", "dim", "bright"}

\* Canvas contents: the untouched canvas and camera frames drawn at the
\* sizes the qualities 0.3, 0.7 and 0.9 give.
Frames ==
  {BlankImage}
    \cup {ImageData(s, CanvasPixels(q)) : s \in FrameScenes, q \in {MinQuality, InitialQuality, MaxQuality}}

\* A detector with or without a stored sample, and a canvas.
InitFrames ==
  /\ now = 0
  /\ videoScene \in FrameScenes
  /\ isStreaming = FALSE
  /\ isDetecting = FALSE
  /\ searchQuery = ""
  /\ detectedObjects = <<>>
  /\ currentBalance = 90
  /\ optimizationsEnabled = InitialOptimizations
  /\ metrics = InitialMetrics
  /\ streamRef = FALSE
  /\ liveStreams = 0
  /\ fpsTimers = 0
  /\ intervalRef = 0
  /\ timers = {}
  /\ frameDiffDetector \in {NoFrame} \cup Frames
  /\ objectTracker = <<>>
  /\ qualityController = NewQualityController
  /\ canvas \in Frames
  /\ frameCountRef = 0
  /\ requests = {}
  /\ ledger = [calls |-> 0, requested |-> 0, applied |-> 0]
  /\ okResponses = 0
  /\ failedResponses = 0
  /\ InitServer
  /\ lastApplied = 0 - 1
  /\ InitPayments
  /\ uiEvents = 0

\* The motion check of a tick and what follows it: a rejected tick counts a
\* skipped frame and returns; an accepted one goes on to captureOptimizedFrame.
\* The camera shows another scene by the next tick.
FrameCheck ==
  /\ metrics.skippedFrames + frameCountRef < MaxFrameChecks
  /\ LET fd == shouldProcessFrame(frameDiffDetector,
                                  MotionCheckInput(canvas, videoScene, qualityController))
     IN  /\ frameDiffDetector' = fd.lastFrameData
         /\ IF fd.result
            THEN /\ canvas' = captureOptimizedFrame(videoScene, qualityController)
                 /\ frameCountRef' = frameCountRef + 1
                 /\ UNCHANGED metrics
            ELSE /\ metrics' = [metrics EXCEPT !.skippedFrames = @ + 1]
                 /\ UNCHANGED <<canvas, frameCountRef>>
  /\ videoScene' \in FrameScenes
  /\ UNCHANGED <<now, isStreaming, isDetecting, searchQuery, detectedObjects,
                 currentBalance, optimizationsEnabled, streamRef, liveStreams,
                 fpsTimers, intervalRef, timers, objectTracker, qualityController,
                 requests, ledger, okResponses, failedResponses, server, lastApplied, payments, uiEvents>>

NextFrames == FrameCheck

SpecFrames == InitFrames /\ [][NextFrames]_vars

(* ---------------- the AdaptiveQualityController on its own ------------- *)

\* adjustQuality is called at most this many times.
MaxAdjustCalls == 11

\* The latencies measured: the means 1000, 1050, 1500, 2000 and 3000 all occur.
ResponseTimes == {1000, 1100, 4000}

\* The end of a successful tick as far as the controller is concerned:
\* qualityController.current.adjustQuality(responseTime), and the metrics the
\* panel shows.
QualityAdjust ==
  /\ metrics.detectionCount < MaxAdjustCalls
  /\ \E responseTime \in ResponseTimes :
       LET qc == adjustQuality(qualityController, responseTime)
       IN  /\ qualityController' = qc
           /\ metrics' = [metrics EXCEPT
                            !.avgResponseTime = responseTime,
                            !.detectionCount = @ + 1,
                            !.qualityLevel = getCurrentQuality(qc)]
  /\ UNCHANGED <<now, videoScene, isStreaming, isDetecting, searchQuery,
                 detectedObjects, currentBalance, optimizationsEnabled, streamRef,
                 liveStreams, fpsTimers, intervalRef, timers, frameDiffDetector,
                 objectTracker, canvas, frameCountRef, requests, ledger,
                 okResponses, failedResponses, server, lastApplied, payments, uiEvents>>

NextQuality == QualityAdjust

SpecQuality == InitTracker /\ [][NextQuality]_vars

(* ------------------------------ properties ----------------------------- *)

\* The step is a firing of the detection timer t (a tick begins).
TickStep(t) ==
  /\ t \in timers
  /\ t.nextFire = now
  /\ timers' = (timers \ {t}) \cup {[t EXCEPT !.nextFire = now + t.interval]}

\* The step ends the suspended tick r.
TickEnds(r) == r \in requests /\ requests' = requests \ {r}


\* C1: within one detection session no two ticks overlap: at most one remote
\* detection call is in flight in every reachable state, even when a remote
\* call takes longer than the timer interval.
C1_AtMostOneInFlight == Cardinality(AwaitingFetch) <= 1

\* C2: once the session is stopped or paused, a response that arrives for a
\* call issued before is discarded: the step that settles it changes neither
\* the Tracker, the published set, the metrics nor the credit balance.
C2_LateResponseDiscarded ==
  [][(~isDetecting /\ requests' # requests)
       => UNCHANGED <<objectTracker, detectedObjects, metrics, currentBalance, ledger>>]_vars

\* C3: whenever the session is stopped or detection is paused, the detection
\* timer is cleared (intervalRef is null and no timer is armed), so no tick of
\* performSmartDetection can begin until detection is started again.
C3_StoppedMeansNoTimer ==
  (~isStreaming \/ ~isDetecting)
    => (intervalRef = 0 /\ timers = {} /\ ~ENABLED PerformSmartDetection)

\* C3 witness: the camera was stopped after ticks had run, with a call still
\* in flight.
C3_Witness == ~isStreaming /\ frameCountRef > 0 /\ requests # {} /\ timers = {}

\* C4: the ledger is asked for exactly 3 credits exactly once per successful
\* remote call, and for nothing else: skipped and aborted ticks never charge.
C4_ChargedOncePerSuccess ==
  /\ ledger.calls = okResponses
  /\ ledger.requested = 3 * okResponses

\* C4 witness: a call succeeded and was charged, and a tick was skipped.
C4_Witness == okResponses >= 1 /\ ledger.calls >= 1 /\ metrics.skippedFrames >= 1

\* C5: when the remote call of a tick fails, that tick ends without another
\* call, the published set and the credits stay as they were, and the timer
\* stays armed so the next scheduled tick tries again.
C5_FailureLeavesResults ==
  [][failedResponses' # failedResponses =>
       /\ \E r \in AwaitingFetch : TickEnds(r)
       /\ UNCHANGED <<detectedObjects, ledger, currentBalance, timers, intervalRef,
                      isDetecting>>]_vars

\* C5 witness: a call has failed and a later tick has issued a new call.
C5_Witness == failedResponses >= 1 /\ AwaitingFetch # {} /\ isDetecting

\* C6: a tick whose remote call fails leaves the Tracker and the Quality
\* Controller as they were, and they change only in the step that completes a
\* tick whose response was a validated success.
C6_FailureLeavesTrackerAndQuality ==
  [][/\ failedResponses' # failedResponses
          => UNCHANGED <<objectTracker, qualityController>>
     /\ (objectTracker' # objectTracker \/ qualityController' # qualityController)
          => \E r \in requests : r.phase = "credits" /\ r.ok /\ TickEnds(r)]_vars

\* C6 witness: a call failed after the Tracker and the Quality Controller had
\* been filled by an earlier success.
C6_Witness ==
  /\ failedResponses >= 1
  /\ objectTracker # <<>>
  /\ qualityController.responseTimeHistory # <<>>

\* C7: a tick that begins while there is no search target or while the
\* current balance is below 3 aborts with no side effect, also after the
\* balance has dropped during the session.
C7_GuardAbortsTick ==
  [][\A t \in timers :
       (TickStep(t) /\ (Trim(searchQuery) = "" \/ currentBalance < 3))
       => UNCHANGED <<requests, ledger, detectedObjects, metrics, objectTracker,
                      frameDiffDetector, qualityController, canvas, frameCountRef,
                      currentBalance>>]_vars

\* Age of the i-th tracked entry.
EntryAge(i) == now - objectTracker[i].lastSeen

\* C8 as stated: shouldSkipDetection() is true iff some entry has age <= 2000
\* and no entry with age <= 3000 has age > 2000.
C8_SkipRuleInclusive ==
  shouldSkipDetection(objectTracker, now)
    <=> (/\ \E i \in 1..Len(objectTracker) : EntryAge(i) <= 2000
         /\ \A i \in 1..Len(objectTracker) : EntryAge(i) <= 3000 => EntryAge(i) <= 2000)

\* C8 amended: shouldSkipDetection() is true iff some entry has age <= 2000
\* and no entry with age < 3000 has age > 2000 (an entry aged exactly 3000 is
\* no longer active and does not prevent the skip).
C8_SkipRule ==
  shouldSkipDetection(objectTracker, now)
    <=> (/\ \E i \in 1..Len(objectTracker) : EntryAge(i) <= 2000
         /\ \A i \in 1..Len(objectTracker) : EntryAge(i) < 3000 => EntryAge(i) <= 2000)

\* C8 witness: one entry aged exactly 3000, another aged exactly 2000, and
\* the decision is to skip.
C8_Witness ==
  /\ \E i, j \in 1..Len(objectTracker) : EntryAge(i) = 3000 /\ EntryAge(j) = 2000
  /\ shouldSkipDetection(objectTracker, now)

\* C9: a tick whose smart-skipping flag is on and for which
\* shouldSkipDetection() is true adds one to the skipped-frame counter,
\* publishes getTrackedObjects() (maxAge 5000) and returns: no remote call, no
\* look at the Frame Difference Detector, no capture, no charge.
C9_SmartSkip ==
  [][\A t \in timers :
       (/\ TickStep(t)
        /\ ~GuardAborts(t.closure)
        /\ t.closure.optimizationsEnabled.smartSkipping
        /\ shouldSkipDetection(objectTracker, now))
       => /\ metrics'.skippedFrames = metrics.skippedFrames + 1
          /\ detectedObjects' = getTrackedObjects(objectTracker, 5000, now)
          /\ UNCHANGED <<requests, frameDiffDetector, canvas, frameCountRef, ledger,
                         currentBalance, okResponses>>]_vars

\* C9 witness: after one detection a tick was skipped and the published set
\* is the tracked (decayed) objects.
C9_Witness ==
  /\ metrics.detectionCount = 1
  /\ metrics.skippedFrames = 1
  /\ frameDiffDetector = BlankImage
  /\ Len(detectedObjects) > 0
  /\ \A i \in 1..Len(detectedObjects) :
       /\ detectedObjects[i].trackingId # NoTrackingId
       /\ detectedObjects[i].timestamp < now

\* C10: in the motion-check step the frame the detector examines is the
\* current video frame of that tick, captured first; and when the detector
\* reports no significant change the skipped-frame counter goes up by one and
\* the tick returns with no remote call and the published set unchanged.
C10_MotionCheckSeesCurrentFrame ==
  [][\A t \in timers :
       (TickStep(t) /\ frameDiffDetector' # frameDiffDetector)
       => /\ frameDiffDetector' = captureOptimizedFrame(videoScene, qualityController)
          /\ (requests' = requests
                => /\ metrics'.skippedFrames = metrics.skippedFrames + 1
                   /\ UNCHANGED detectedObjects)]_vars

\* The tick of timer t gets past the guard and the smart skip and comes to
\* the motion check.
ReachesMotionCheck(t) ==
  /\ ~GuardAborts(t.closure)
  /\ ~(t.closure.optimizationsEnabled.smartSkipping
       /\ shouldSkipDetection(objectTracker, now))
  /\ t.closure.optimizationsEnabled.frameDifference

\* C11: every call of shouldProcessFrame after the first stores the frame it
\* was passed, whether it returns true or false, and its answer compares that
\* frame with the sample stored by the call before (the tick goes on to a
\* remote call exactly when the difference exceeds the threshold).
C11_SampleAlwaysReplaced ==
  [][\A t \in timers :
       (TickStep(t) /\ ReachesMotionCheck(t) /\ frameDiffDetector # NoFrame)
       => LET passed == MotionCheckInput(canvas, videoScene, qualityController)
          IN  /\ frameDiffDetector' = passed
              /\ (requests' # requests)
                   <=> ExceedsThreshold(calculateFrameDifference(frameDiffDetector, passed))]_vars

\* C11 witness: a call that answered false has stored the frame it was given
\* (no object is tracked, so the skipped tick was a motion rejection).
C11_Witness ==
  /\ metrics.skippedFrames >= 1
  /\ objectTracker = <<>>
  /\ frameCountRef >= 1
  /\ frameDiffDetector = canvas
  /\ frameDiffDetector # BlankImage

\* The step is the first firing of timer t since it was armed.
FirstTick(t) == TickStep(t) /\ now = t.armedAt + t.interval

\* C12: the first tick of a session is never rejected by the motion check: when
\* it comes to the motion check it does not count a skipped frame.
C12_FirstTickNeverRejected ==
  [][\A t \in timers :
       (FirstTick(t) /\ ReachesMotionCheck(t))
       => metrics'.skippedFrames = metrics.skippedFrames]_vars

\* The step completes the tick r, whose charge has settled.
Completes(r) == r \in requests /\ r.phase = "credits" /\ TickEnds(r)

FreshLabels(r) == {r.results[i].label : i \in 1..Len(r.results)}

\* C13: after a successful remote call with tracking enabled the published
\* set is the fresh detections followed by exactly those tracked objects
\* whose label is not among the fresh detections; a label with both a fresh
\* detection and a tracked entry is published only as fresh detection.
C13_MergePrefersFresh ==
  [][\A r \in requests :
       (Completes(r) /\ r.objectTracking) =>
       LET n == Len(r.results)
           tracked == getTrackedObjects(objectTracker', DefaultMaxAge, now)
           published == detectedObjects'
       IN  /\ Len(published) >= n
           /\ \A i \in 1..n :
                /\ published[i].label = r.results[i].label
                /\ published[i].trackingId = NoTrackingId
                /\ published[i].timestamp = now
           /\ {published[i] : i \in (n + 1)..Len(published)}
                = {tracked[j] : j \in {k \in 1..Len(tracked) :
                                         tracked[k].label \notin FreshLabels(r)}}
           /\ \A i \in (n + 1)..Len(published) :
                published[i].label \notin FreshLabels(r)]_vars

\* C13 witness: "cup" was tracked by an earlier detection and is detected
\* again; it is published once, as the fresh detection, next to the tracked
\* "keys".
C13_Witness ==
  /\ \E k \in 1..Len(objectTracker) :
       /\ objectTracker[k].label = "cup"
       /\ objectTracker[k].trackingId[2] < objectTracker[k].lastSeen
       /\ objectTracker[k].lastSeen = now
  /\ Len(detectedObjects) = 2
  /\ detectedObjects[1].label = "cup"
  /\ detectedObjects[1].trackingId = NoTrackingId
  /\ detectedObjects[2].label = "keys"
  /\ detectedObjects[2].trackingId # NoTrackingId

\* C14: every point of a successful response is published with x = point[1]
\* and y = point[0] (over 1000), not estimated, and with tracking enabled the
\* tracker holds an entry with a tracking identifier for its label.
C14_PointConversion ==
  [][\A r \in requests :
       Completes(r) =>
       \A i \in 1..Len(r.results) :
         /\ Len(detectedObjects') >= i
         /\ detectedObjects'[i].label = r.results[i].label
         /\ detectedObjects'[i].x = r.results[i].point[2]
         /\ detectedObjects'[i].y = r.results[i].point[1]
         /\ ~detectedObjects'[i].estimated
         /\ r.objectTracking =>
              \E k \in 1..Len(objectTracker') :
                /\ objectTracker'[k].label = r.results[i].label
                /\ objectTracker'[k].trackingId # NoTrackingId
                /\ objectTracker'[k].trackingId[1] = r.results[i].label]_vars

\* C14 witness: the point [500,500] labelled "cup" is the one object
\* published, at (0.5, 0.5), and the tracker has minted an identifier for it.
C14_Witness ==
  /\ Len(detectedObjects) = 1
  /\ detectedObjects[1].label = "cup"
  /\ detectedObjects[1].x = 500
  /\ detectedObjects[1].y = 500
  /\ ~detectedObjects[1].estimated
  /\ Len(objectTracker) = 1
  /\ objectTracker[1].trackingId = MintTrackingId("cup", objectTracker[1].lastSeen)

\* C17: when the charge fails after a successful detection (the ledger
\* applies nothing), the tick still publishes the detections of its response,
\* still updates the tracker (tracking enabled), counts the detection, and
\* ends without disturbing the session: the timer stays armed.
C17_ChargeFailureContained ==
  [][\A r \in requests :
       (Completes(r) /\ ledger'.applied = ledger.applied) =>
       /\ Len(detectedObjects') >= Len(r.results)
       /\ \A i \in 1..Len(r.results) :
            /\ detectedObjects'[i].label = r.results[i].label
            /\ detectedObjects'[i].timestamp = now
            /\ r.objectTracking =>
                 \E k \in 1..Len(objectTracker') :
                   /\ objectTracker'[k].label = r.results[i].label
                   /\ objectTracker'[k].lastSeen = now
       /\ metrics'.detectionCount = metrics.detectionCount + 1
       /\ UNCHANGED <<isDetecting, timers, intervalRef, failedResponses>>]_vars

\* C17 witness: a detection was requested to be charged, the ledger applied
\* nothing, and its object is published and tracked.
C17_Witness ==
  /\ ledger.calls = 1
  /\ ledger.applied = 0
  /\ requests = {}
  /\ metrics.detectionCount = 1
  /\ Len(detectedObjects) = 1
  /\ detectedObjects[1].trackingId = NoTrackingId
  /\ Len(objectTracker) = 1
  /\ objectTracker[1].lastSeen = detectedObjects[1].timestamp

RECURSIVE GCD(_, _)
GCD(a, b) == IF b = 0 THEN a ELSE GCD(b, a % b)

\* The fraction f in lowest terms.
Reduce(f) ==
  LET g == GCD(f.n, f.d) IN [n |-> f.n \div g, d |-> f.d \div g]

\* f = g and f <= g as rational numbers.
FracEq(f, g) == Reduce(f) = Reduce(g)

FracLeq(f, g) == Reduce(f).n * Reduce(g).d <= Reduce(g).n * Reduce(f).d

\* The values of maxAge the component calls getTrackedObjects with.
MaxAges == {SkipWindow, DefaultMaxAge}

\* The tracker entry of a label.
EntryOf(label) == objectTracker[LabelIndex(objectTracker, label)]

\* C18: every object getTrackedObjects(maxAge) returns has the position and
\* the tracking identifier of its entry, confidence = stored confidence times
\* max(0.3, 1 - age / maxAge), and estimated = (age > 2000).
C18_ActiveObjectFields ==
  \A maxAge \in MaxAges :
    LET objs == getTrackedObjects(objectTracker, maxAge, now)
    IN  \A i \in 1..Len(objs) :
          LET e == EntryOf(objs[i].label)
              age == now - e.lastSeen
              c == objs[i].confidence
          IN  /\ LabelIndex(objectTracker, objs[i].label) > 0
              /\ objs[i].x = e.x
              /\ objs[i].y = e.y
              /\ objs[i].trackingId = e.trackingId
              /\ IF 10 * (maxAge - age) >= 3 * maxAge
                 THEN FracEq(c, [n |-> e.confidence * (maxAge - age), d |-> 100 * maxAge])
                 ELSE FracEq(c, [n |-> e.confidence * 3, d |-> 100 * 10])
              /\ objs[i].estimated <=> (age > 2000)

\* C18 witness: an entry aged 2500 is returned for maxAge 3000, estimated,
\* with its confidence at the floor of 30%.
C18_Witness ==
  \E i \in 1..Len(objectTracker) :
    /\ EntryAge(i) = 2500
    /\ \E k \in 1..Len(getTrackedObjects(objectTracker, SkipWindow, now)) :
         LET obj == getTrackedObjects(objectTracker, SkipWindow, now)[k]
         IN  /\ obj.label = objectTracker[i].label
             /\ obj.estimated
             /\ FracEq(obj.confidence, [n |-> objectTracker[i].confidence * 3, d |-> 1000])

\* C19: an entry whose age exceeds maxAge never appears in the result of
\* getTrackedObjects(maxAge).
C19_StaleNeverActive ==
  \A maxAge \in MaxAges :
    \A i \in 1..Len(objectTracker) :
      EntryAge(i) > maxAge =>
        \A k \in 1..Len(getTrackedObjects(objectTracker, maxAge, now)) :
          getTrackedObjects(objectTracker, maxAge, now)[k].label # objectTracker[i].label

\* C19 witness: one entry is older than 3000 ms, another is not, and
\* getTrackedObjects(3000) returns the other alone.
C19_Witness ==
  /\ \E i \in 1..Len(objectTracker) : EntryAge(i) > SkipWindow
  /\ Len(objectTracker) = 2
  /\ Len(getTrackedObjects(objectTracker, SkipWindow, now)) = 1

\* Ages on the clock's grid from a1 (exclusive) up to maxAge (inclusive).
LaterAges(a1, maxAge) ==
  {a2 \in {k * ClockStep : k \in 0..(maxAge \div ClockStep)} : a2 > a1}

\* C20: for an entry that is not updated, the confidence reported never
\* increases with age: for all ages a1 < a2 <= maxAge,
\* confidence(a2) <= confidence(a1).
C20_ConfidenceNeverIncreases ==
  \A maxAge \in MaxAges :
    \A i \in 1..Len(objectTracker) :
      \A a2 \in LaterAges(EntryAge(i), maxAge) :
        LET c1 == DecayedConfidence(objectTracker[i].confidence, EntryAge(i), maxAge)
            c2 == DecayedConfidence(objectTracker[i].confidence, a2, maxAge)
        IN  FracLeq(c2, c1)

\* C20 witness: an entry has aged (2500 ms) without an update and its
\* reported confidence is strictly below the stored one.
C20_Witness ==
  \E i \in 1..Len(objectTracker) :
    /\ EntryAge(i) = 2500
    /\ LET c == DecayedConfidence(objectTracker[i].confidence, EntryAge(i), DefaultMaxAge)
       IN  ~FracLeq([n |-> objectTracker[i].confidence, d |-> 100], c)

\* The model's output is a well-formed list: an array in which every item
\* bears a 2-element point and a label.
WellFormedList(out) ==
  /\ out.kind = "json"
  /\ out.isArray
  /\ \A i \in 1..Len(out.items) :
       /\ out.items[i].pointIsArray
       /\ Len(out.items[i].point) = 2
       /\ out.items[i].label # ""

\* C15: a response that is not a well-formed list is treated as zero
\* detections as a whole: the client is handed no item of it.
C15_MalformedMeansEmpty ==
  \A r \in requests :
    (r.phase = "credits" /\ ~WellFormedList(r.raw)) => r.results = <<>>

\* C16: for a malformed remote response (no JSON, or JSON that is not an
\* array of point items) no credit charge is recorded and the tick leaves the
\* published set as it was.
C16_MalformedChangesNothing ==
  [][/\ \A r \in requests' :
          (r \notin requests /\ r.phase = "credits" /\ ~WellFormedList(r.raw))
          => ledger' = ledger
     /\ \A r \in requests :
          (Completes(r) /\ ~WellFormedList(r.raw))
          => UNCHANGED <<detectedObjects, ledger, currentBalance>>]_vars

(* ------------------------- tracking identifiers ------------------------ *)

\* The entry of the label is gone from what the tracker reports with the
\* default window: its age exceeded DefaultMaxAge.
Evicted(obj, t) == t - obj.lastSeen > DefaultMaxAge

\* The step updates the entry at position i of the tracker.
UpdatesEntry(i) ==
  /\ i \in 1..Len(objectTracker)
  /\ Len(objectTracker') >= i
  /\ objectTracker'[i].label = objectTracker[i].label
  /\ objectTracker'[i].lastSeen = now
  /\ objectTracker'[i] # objectTracker[i]

\* C21: the tracking identifier of a label stays the same across every update
\* of the label until its entry is evicted, and an update of the label after
\* the entry was evicted (its age exceeded the staleness window) mints an
\* identifier different from the one used before.
C21_NewIdentifierAfterEviction ==
  [][\A i \in 1..Len(objectTracker) :
       UpdatesEntry(i) =>
         IF Evicted(objectTracker[i], now)
         THEN objectTracker'[i].trackingId # objectTracker[i].trackingId
         ELSE objectTracker'[i].trackingId = objectTracker[i].trackingId]_vars

\* The half of C21 the tracker keeps: the identifier never changes while the
\* entry is within the window.
IdentifierKeptUntilEviction ==
  [][\A i \in 1..Len(objectTracker) :
       (UpdatesEntry(i) /\ ~Evicted(objectTracker[i], now)) =>
         objectTracker'[i].trackingId = objectTracker[i].trackingId]_vars

(* --------------------------- quality controller ------------------------ *)

\* The call of adjustQuality just made, by what it left in the panel.
AdjustStep == metrics'.detectionCount = metrics.detectionCount + 1

AllSamples(h, responseTime) == \A i \in 1..Len(h) : h[i] = responseTime

\* C22: after any sequence of adjust calls with any response times the
\* quality level is within [0.3, 0.9] (30 to 90 hundredths).
C22_QualityWithinBounds ==
  /\ qualityController.currentQuality >= 30
  /\ qualityController.currentQuality <= 90

\* Nine slow calls in a row: the ninth would have taken the quality to 0.25.
C22_Witness ==
  /\ Len(qualityController.responseTimeHistory) = 9
  /\ AllSamples(qualityController.responseTimeHistory, 4000)
  /\ qualityController.currentQuality = 30

\* The step the mean-against-threshold rule asks for, in hundredths: the mean
\* is sum / n, 1500 the target and 1050 the target times 0.7.
RuleStep(h) ==
  IF SumSeq(h) > 1500 * Len(h) THEN 0 - 5
  ELSE IF SumSeq(h) < 1050 * Len(h) THEN 2
  ELSE 0

\* C23 as stated: each adjust call changes the quality by exactly -0.05 when
\* the mean of the history including the new sample exceeds 1500 ms, by
\* exactly +0.02 when it is below 1050 ms, and by 0 otherwise.
C23_ExactStepAlways ==
  [][AdjustStep =>
       qualityController'.currentQuality - qualityController.currentQuality
         = RuleStep(qualityController'.responseTimeHistory)]_vars

\* C23, amended: the change is the step of the rule, except that the result
\* is held at 0.3 and at 0.9: the new quality is the old one plus the step,
\* clamped to [0.3, 0.9].
C23_ExactStepUnlessClamped ==
  [][AdjustStep =>
       qualityController'.currentQuality
         = Max(30, Min(90, qualityController.currentQuality
                             + RuleStep(qualityController'.responseTimeHistory)))]_vars

\* Response times of 1000 ms from the first call on: ten calls have raised
\* the quality from 0.7 to 0.9 and the eleventh has left it there.
C23_Witness ==
  /\ metrics.detectionCount = 11
  /\ AllSamples(qualityController.responseTimeHistory, 1000)
  /\ qualityController.currentQuality = 90

\* C24: the history never holds more than 10 samples; it is the most recent
\* min(n, 10) response times in arrival order (an eleventh sample removes the
\* oldest), and the mean that moves the quality is taken over exactly those.
C24_SlidingWindow ==
  [][AdjustStep =>
       LET arrived == Append(qualityController.responseTimeHistory,
                             metrics'.avgResponseTime)
           h == qualityController'.responseTimeHistory
           q == qualityController.currentQuality
           q2 == qualityController'.currentQuality
       IN  /\ Len(h) <= 10
           /\ h = IF Len(arrived) <= 10 THEN arrived
                  ELSE SubSeq(arrived, Len(arrived) - 9, Len(arrived))
           /\ q2 < q => SumSeq(h) > 1500 * Len(h)
           /\ q2 > q => SumSeq(h) < 1050 * Len(h)]_vars

\* Eleven samples have arrived: 4000, nine times 1000, then 1100. The first
\* is gone and the last is there; the mean over the ten kept is 1010 and has
\* raised the quality from 0.45 to 0.47 (over all eleven it would be 1281).
C24_Witness ==
  /\ metrics.detectionCount = 11
  /\ Len(qualityController.responseTimeHistory) = 10
  /\ qualityController.responseTimeHistory[10] = 1100
  /\ metrics.avgResponseTime = 1100
  /\ \A i \in 1..9 : qualityController.responseTimeHistory[i] = 1000
  /\ qualityController.currentQuality = 47

\* C25: getRecommendedInterval is the step function of the mean response
\* time m of the history: 4000 when m > 3000, 3000 when 2000 < m <= 3000,
\* 2000 when 1000 < m <= 2000, and 1500 otherwise (an empty history included).
C25_RecommendedIntervalSteps ==
  LET h == qualityController.responseTimeHistory
      n == Len(h)
      sum == SumSeq(h)
      interval == getRecommendedInterval(qualityController)
  IN  /\ n = 0 => interval = 1500
      /\ (n > 0 /\ sum > 3000 * n) => interval = 4000
      /\ (n > 0 /\ 2000 * n < sum /\ sum <= 3000 * n) => interval = 3000
      /\ (n > 0 /\ 1000 * n < sum /\ sum <= 2000 * n) => interval = 2000
      /\ (n > 0 /\ sum <= 1000 * n) => interval = 1500

\* A mean of exactly 3000 ms.
C25_Witness ==
  /\ qualityController.responseTimeHistory = <<1000, 4000, 4000>>
  /\ getRecommendedInterval(qualityController) = 3000

(* ----------------------- controller and the timer ---------------------- *)

\* C26: with adaptive quality enabled, after each successful remote call the
\* timer of the next tick is re-armed with the controller's recommended
\* interval, computed after the call's latency was recorded.
C26_TimerRearmedAfterSuccess ==
  [][\A r \in requests :
       (Completes(r) /\ r.adaptiveQuality /\ isDetecting) =>
         \A t \in timers' :
           t.id = intervalRef' =>
             t.interval = getRecommendedInterval(qualityController')]_vars

\* C27: the latency of every successful remote call is fed into adjustQuality
\* exactly once, whether or not the adaptive-quality flag is enabled.
C27_LatencyAlwaysFed ==
  [][\A r \in requests :
       Completes(r) =>
         qualityController' = adjustQuality(qualityController, r.responseTime)]_vars

\* The step starts the camera: a session begins.
SessionStarts == ~isStreaming /\ isStreaming'

\* C28: the tracker, the frame-difference detector and the quality controller
\* do not survive a session: when the stream is started (again), the tracker
\* has no entries, the detector no stored sample, and the controller its
\* initial quality and an empty history.
C28_NothingSurvivesSession ==
  [][SessionStarts =>
       /\ objectTracker' = <<>>
       /\ frameDiffDetector' = NoFrame
       /\ qualityController' = NewQualityController]_vars

(* ------------------------- timeouts and the camera --------------------- *)

\* A tick whose remote call was issued at startTime has not completed.
TickPending(startTime) == \E r \in requests : r.startTime = startTime

\* C29: no tick blocks indefinitely on the network: every tick that issues a
\* remote call eventually completes (success or failure), even if the remote
\* endpoint never responds.
C29_EveryTickCompletes ==
  \A k \in 0..MaxClockSteps :
    TickPending(k * ClockStep) ~> ~TickPending(k * ClockStep)

\* C30: the camera is released on every exit path: whenever the session is
\* not streaming no acquired stream is still live, and no live stream is out
\* of reach of streamRef.
C30_CameraAlwaysReleased ==
  /\ ~isStreaming => liveStreams = 0
  /\ liveStreams <= (IF streamRef THEN 1 ELSE 0)

(* ---------------------------- published sets --------------------------- *)

\* C31: every object of every published set has x and y within [0,1]
\* (0 to 1000 thousandths) and confidence within [0,1], for any response
\* the remote detector may return and any tracker age.
C31_PublishedWithinUnitRange ==
  \A i \in 1..Len(detectedObjects) :
    /\ detectedObjects[i].x >= 0 /\ detectedObjects[i].x <= 1000
    /\ detectedObjects[i].y >= 0 /\ detectedObjects[i].y <= 1000
    /\ detectedObjects[i].confidence.n >= 0
    /\ detectedObjects[i].confidence.n <= detectedObjects[i].confidence.d

\* C37: every published set contains at most one object per label, for any
\* remote response (several points with the same label included) and any
\* tracker state.
C37_OneObjectPerLabel ==
  \A i, j \in 1..Len(detectedObjects) :
    detectedObjects[i].label = detectedObjects[j].label => i = j

(* ------------------------- frame-difference score ---------------------- *)

\* The step is a motion check against a stored sample of the canvas' size.
ComparesFrames ==
  /\ metrics'.skippedFrames + frameCountRef' = metrics.skippedFrames + frameCountRef + 1
  /\ frameDiffDetector # NoFrame
  /\ Len(frameDiffDetector) = Len(canvas)

\* The score as stated: the summed absolute R, G and B differences of the
\* sampled pixels over (number of sampled pixels * 3 * 255).
StatedScore(frame1, frame2) ==
  [nan |-> FALSE,
   num |-> SumOver(SampleOffsets(frame1), frame1, frame2),
   den |-> Cardinality(SampleOffsets(frame1)) * 3 * 255]

\* C32: the frame-difference score is the sum over the sampled pixels of the
\* absolute R, G and B differences divided by (number of sampled pixels * 3 *
\* 255), and shouldProcessFrame returns true exactly when it exceeds 0.15.
C32_ScoreOverSampledPixels ==
  [][ComparesFrames =>
       LET stated == StatedScore(frameDiffDetector, canvas)
           score == calculateFrameDifference(frameDiffDetector, canvas)
       IN  /\ ~score.nan
           /\ score.num * stated.den = stated.num * score.den
           /\ (frameCountRef' = frameCountRef + 1) <=> ExceedsThreshold(stated)]_vars

\* The step is a tick that the motion check rejects.
MotionRejects(t) ==
  /\ TickStep(t)
  /\ ReachesMotionCheck(t)
  /\ metrics'.skippedFrames = metrics.skippedFrames + 1

\* C38: a tick rejected by the motion check does not stall detection: the
\* frame examined by later ticks is refreshed, so that a tick finding the
\* video changed by more than the threshold since the rejected tick's sample
\* passes the motion check. Said of the state a rejected tick leaves behind:
\* whatever scene v the camera shows at the next tick, if a frame of v
\* differs from the stored sample by more than the threshold, the check of
\* that tick answers true.
C38_RejectionDoesNotStall ==
  [][\A t \in timers :
       MotionRejects(t) =>
         \A v \in Scenes :
           ExceedsThreshold(calculateFrameDifference(
               frameDiffDetector', captureOptimizedFrame(v, qualityController')))
           => shouldProcessFrame(
                frameDiffDetector',
                MotionCheckInput(canvas', v, qualityController')).result]_vars

\* What every rejected tick leaves behind: the stored sample is the canvas
\* itself, so the next check compares the canvas with itself.
RejectionLeavesSampleEqualCanvas ==
  [][\A t \in timers : MotionRejects(t) => frameDiffDetector' = canvas']_vars

(* ------------------------------ the server ----------------------------- *)

\* C33: the periodic sweep removes the per-session state of every session
\* idle for more than five minutes, so sessionCredits holds no entry whose
\* last update is older than five minutes plus one sweep period.
C33_IdleSessionsSwept ==
  \A sessionId \in DOMAIN sessionCredits :
    now - sessionCredits[sessionId].lastUpdate <= SweepPeriod + SweepPeriod

\* C35: the per-session cumulative counter equals 3 times the number of the
\* session's requests that returned a successful detection; requests that
\* fail do not increase it.
C35_CounterCountsSuccesses ==
  \A sessionId \in DOMAIN sessionCredits :
    sessionCredits[sessionId].used = 3 * served[sessionId]

(* ------------------------------ the balance ---------------------------- *)

\* C34: the local credit balance equals the initial balance minus 3 times the
\* number of successful ledger charges made in the session: every step lowers
\* the balance by exactly what it adds to the amount the ledger has applied.
C34_BalanceFollowsLedger ==
  [][currentBalance - currentBalance' = ledger'.applied - ledger.applied]_vars

(* ------------------------- order of the responses ---------------------- *)

\* C36: remote responses are applied in the order their requests were issued:
\* the response to an earlier tick's request never overwrites the tracker
\* entries or the published set produced by the response to a later tick's
\* request.
C36_ResponsesAppliedInOrder ==
  [][\A r \in requests :
       (Completes(r) /\ r.startTime < lastApplied)
       => UNCHANGED <<detectedObjects, objectTracker>>]_vars

\* C39: at most one FPS-counter timer and at most one detection timer are
\* armed at any time, and none remains once the camera is stopped.
C39_TimersBounded ==
  /\ fpsTimers <= 1
  /\ Cardinality(timers) <= 1
  /\ ~isStreaming => (fpsTimers = 0 /\ timers = {})

(* ------------------------------ paid orders ---------------------------- *)

\* Every delivery of the order has been handled to the end.
Handled(polarId) ==
  /\ polarId \in DOMAIN granted
  /\ \A d \in deliveries : d.polarId # polarId

\* C40: createTransaction grants the buyer's credits at most once per polarId:
\* for any number of deliveries of the same paid order, concurrent ones
\* included, exactly one transaction record exists for the polarId and
\* updateCredits is applied exactly once.
C40_CreditsGrantedOnce ==
  \A polarId \in PolarIds :
    /\ Cardinality({doc \in transactions : doc.polarId = polarId}) <= 1
    /\ polarId \in DOMAIN granted => granted[polarId].credits <= OrderCredits
    /\ Handled(polarId) =>
         /\ Cardinality({doc \in transactions : doc.polarId = polarId}) = 1
         /\ granted[polarId].credits = OrderCredits

\* What the code does keep of C40: never more than one record and never more
\* than one grant per polarId.
AtMostOneRecordAndGrant ==
  \A polarId \in PolarIds :
    /\ Cardinality({doc \in transactions : doc.polarId = polarId}) <= 1
    /\ polarId \in DOMAIN granted => granted[polarId].credits <= OrderCredits

====
